---- MODULE Spec2Model ----
(***************************************************************************)
(* Model of the intelli-widgets SDK (src/src/index.ts): IntelliWidget      *)
(* (fetch / mount / updateAll / removeAll / eventHandler) and the facade   *)
(* IntelliProveWidgets (module loading, loaded, changeLanguage,            *)
(* getLoadingWidget, getWidget, mountWidget).                              *)
(***************************************************************************)
EXTENDS Integers, Sequences, FiniteSets, TLC

(***************************************************************************)
(* Bounds of the model.                                                    *)
(***************************************************************************)
MaxInflight == 1
MaxHead == 2
MaxBody == 2
MaxElems == 3
MaxStyle == 2
MaxCalls == 2
MaxOverlap == 2
TickMs == 2500
MaxClock == 12500

\* the widget the single-widget lifecycles drive, and every widget id
Widgets == {"w1"}
AllWidgets == {"w1", "w2"}
Facades == {"f1", "f2"}
Selectors == {"#a", "#b"}
NoLocale == "null"
Locales == {NoLocale, "fr"}
Globals == {"Chart", "ChartDataLabels", "d3"}

(***************************************************************************)
(* JSON values as response.json() produces them.                           *)
(***************************************************************************)
JUndefined == [t |-> "undefined"]
JNull == [t |-> "null"]
JStr(s) == [t |-> "str", s |-> s]
JArr(items) == [t |-> "arr", items |-> items]
JObj(f) == [t |-> "obj", f |-> f]

\* the `in` operator throws a TypeError on a primitive or null right operand
InThrows(v) == v.t \in {"null", "str", "undefined"}

\* key in v
HasKey(v, k) ==
  \/ v.t = "obj" /\ k \in DOMAIN v.f
  \/ v.t = "arr" /\ k = "0" /\ Len(v.items) > 0

\* property access v[k] throws a TypeError on null and undefined
GetThrows(v) == v.t \in {"null", "undefined"}

\* v[k] for a v that is neither null nor undefined
Get(v, k) ==
  IF v.t = "obj" /\ k \in DOMAIN v.f THEN v.f[k]
  ELSE IF v.t = "arr" /\ k = "0" /\ Len(v.items) > 0 THEN v.items[1]
  ELSE IF v.t = "str" /\ k = "0" /\ v.s # "" THEN JStr("char")
  ELSE JUndefined

\* JavaScript truthiness
Truthy(v) ==
  CASE v.t = "undefined" -> FALSE
    [] v.t = "null" -> FALSE
    [] v.t = "str" -> v.s # ""
    [] OTHER -> TRUE

ValidationItem == JObj([loc |-> JStr("body,name"), msg |-> JStr("field required")])

JsonBodies ==
  { JNull,
    JStr("oops"),
    JObj(<<>>),
    JObj([detail |-> JStr("")]),
    JObj([detail |-> JStr("Widget not found")]),
    JObj([detail |-> JArr(<<ValidationItem>>)]),
    JObj([detail |-> JArr(<<>>)]),
    JArr(<<ValidationItem>>),
    JObj(("0" :> ValidationItem) @@ ("detail" :> JArr(<<ValidationItem>>))) }

(***************************************************************************)
(* Widget markup: the elements of the response text in document order.     *)
(* An element's text is a sequence of tokens; Placeholder is the literal   *)
(* token "intelli-widget-id".                                              *)
(***************************************************************************)
Placeholder == "intelli-widget-id"
RootClass == "intelli-widget"

Elem(tag, src, cls, text) == [tag |-> tag, src |-> src, cls |-> cls, text |-> text]

ExtScript == Elem("script", "https://cdn/x.js", "", <<>>)
InlineScript == Elem("script", "", "", <<"init(", Placeholder, ")">>)
StyleElem == Elem("style", "", "", <<"#", Placeholder, "{}">>)
LinkElem == Elem("link", "", "", <<>>)
RootDiv(txt) == Elem("div", "", RootClass, <<"id=", Placeholder, txt>>)
PlainDiv == Elem("div", "", "", <<"text">>)

\* every markup of at most n elements over the element kinds above
ElemKinds == {ExtScript, InlineScript, StyleElem, LinkElem, RootDiv("en"), PlainDiv}
SeqsUpTo(S, n) == UNION {[1..k -> S] : k \in 0..n}

\* container.innerHTML = result: the elements of the fragment, each a node
\* at its position `pos` in document order
Node(pos, e) == [pos |-> pos] @@ e
ParseHtml(markup) == [i \in DOMAIN markup |-> Node(i, markup[i])]

\* container.querySelectorAll(tag)
QuerySelectorAll(nodes, tag) == SelectSeq(nodes, LAMBDA n : n.tag = tag)

NoContent == [tag |-> "null"]

\* container.querySelector(".intelli-widget")
RECURSIVE FirstWithClass(_, _, _)
FirstWithClass(nodes, cls, i) ==
  IF i > Len(nodes) THEN NoContent
  ELSE IF nodes[i].cls = cls THEN nodes[i]
  ELSE FirstWithClass(nodes, cls, i + 1)

QuerySelectorClass(nodes, cls) == FirstWithClass(nodes, cls, 1)

\* head assets kept in document order instead of grouped by kind
FetchHeadElementsDocOrder(nodes) ==
  SelectSeq(nodes, LAMBDA n : (n.tag = "script" /\ n.src # "") \/ n.tag \in {"style", "link"})

\* the three assignments that end fetch
FetchHeadElements(nodes) ==
  SelectSeq(QuerySelectorAll(nodes, "script"), LAMBDA s : s.src # "")
    \o QuerySelectorAll(nodes, "style")
    \o QuerySelectorAll(nodes, "link")

FetchBodyScripts(nodes) ==
  SelectSeq(QuerySelectorAll(nodes, "script"), LAMBDA s : s.src = "")

FetchInnerContent(nodes) == QuerySelectorClass(nodes, RootClass)

(***************************************************************************)
(* HTTP responses and the outcome of IntelliWidget.fetch.                  *)
(***************************************************************************)
Statuses == {200, 400, 401, 403, 404, 422, 500}

JsonText(v) == [fmt |-> "json", val |-> v, markup |-> <<>>]
HtmlText(m) == [fmt |-> "html", val |-> JUndefined, markup |-> m]

\* what the backend renders for a locale: a widget with its root element,
\* or a fragment without one; with and without scripts
PlainMarkups(locale) == { <<RootDiv(locale)>>, <<PlainDiv>> }
AssetMarkups(locale) == { <<InlineScript, RootDiv(locale), ExtScript>>, <<PlainDiv, ExtScript>> }
\* a widget that brings its own style sheet, scoped by the placeholder
StyleMarkups(locale) == { <<StyleElem, RootDiv(locale)>> }

Bodies(locale) ==
  {JsonText(v) : v \in JsonBodies} \cup {HtmlText(m) : m \in AssetMarkups(locale)}

\* every status with every body
Responses(locale) == [status : Statuses, body : Bodies(locale)]

\* the responses of a backend that answers the error statuses with
\* {detail: "..."} and the other statuses with markup
ErrorStatuses == {400, 401, 404, 422, 500}
BackendResponses(markups) ==
  [status : ErrorStatuses, body : {JsonText(JObj([detail |-> JStr("Widget not found")]))}]
    \cup [status : Statuses \ ErrorStatuses, body : {HtmlText(m) : m \in markups}]

\* response.json() rejects with a SyntaxError when the text is not JSON
JsonThrows(body) == body.fmt # "json"

Resolved == [kind |-> "resolve", name |-> "", arg |-> JUndefined]
Thrown(name, arg) == [kind |-> "reject", name |-> name, arg |-> arg]

Msg400NoUser == JStr("Your authentication is valid but it does not contain a link to a user.")
Msg400NoBody == JStr("Unexpected error, got status code 400 from API without a valid response body")
Msg401 == JStr("Your authentication is invalid. Please double check and/or refresh your authentication.")
Msg500 == JStr("An unexpected server error occurred, cannot load widget. If this issue persists, please contact our support team.")

\* catch (e) { console.error(e); throw new IntelliSdkLoadingError(...) }
Catch400(e) == Thrown("IntelliSdkLoadingError", Msg400NoBody)

\* case 400: everything the try block throws, its own typed errors included,
\* is caught by the catch clause
Fetch400(body) ==
  LET tried ==
        IF JsonThrows(body) THEN Thrown("SyntaxError", JUndefined)
        ELSE IF InThrows(body.val) THEN Thrown("TypeError", JUndefined)
        ELSE IF HasKey(body.val, "detail") /\ Truthy(Get(body.val, "detail"))
          THEN Thrown("IntelliWidgetNotFoundError", Get(body.val, "detail"))
        ELSE Thrown("IntelliActionTokenError", Msg400NoUser)
  IN Catch400(tried)

Fetch401(body) == Thrown("IntelliActionTokenError", Msg401)

Fetch404(body) ==
  IF JsonThrows(body) THEN Thrown("SyntaxError", JUndefined)
  ELSE IF GetThrows(body.val) THEN Thrown("TypeError", JUndefined)
  ELSE Thrown("IntelliWidgetNotFoundError", Get(body.val, "detail"))

\* `'${validationError["detail"][0]["loc"]}': ${validationError[0]["msg"]}`
Fetch422(body) ==
  IF JsonThrows(body) THEN Thrown("SyntaxError", JUndefined)
  ELSE LET v == body.val IN
    IF GetThrows(v) THEN Thrown("TypeError", JUndefined)
    ELSE LET d == Get(v, "detail") IN
      IF GetThrows(d) THEN Thrown("TypeError", JUndefined)
      ELSE LET d0 == Get(d, "0") IN
        IF GetThrows(d0) THEN Thrown("TypeError", JUndefined)
        ELSE LET v0 == Get(v, "0") IN
          IF GetThrows(v0) THEN Thrown("TypeError", JUndefined)
          ELSE Thrown("IntelliInvalidParamaterError",
                      JArr(<<Get(d0, "loc"), Get(v0, "msg")>>))

Fetch500(body) == Thrown("IntelliUnexpectedError", Msg500)

\* a switch with a default case that throws for every status but 200
FetchOutcomeOnly200(resp) ==
  CASE resp.status = 400 -> Fetch400(resp.body)
    [] resp.status = 401 -> Fetch401(resp.body)
    [] resp.status = 404 -> Fetch404(resp.body)
    [] resp.status = 422 -> Fetch422(resp.body)
    [] resp.status = 500 -> Fetch500(resp.body)
    [] resp.status = 200 -> Resolved
    [] OTHER -> Thrown("IntelliUnexpectedError", Msg500)

\* switch (response.status)
FetchOutcome(resp) ==
  CASE resp.status = 400 -> Fetch400(resp.body)
    [] resp.status = 401 -> Fetch401(resp.body)
    [] resp.status = 404 -> Fetch404(resp.body)
    [] resp.status = 422 -> Fetch422(resp.body)
    [] resp.status = 500 -> Fetch500(resp.body)
    [] OTHER -> Resolved

(***************************************************************************)
(* State.                                                                  *)
(***************************************************************************)
VARIABLES
  innerContent,   \* [Widgets -> node | NoContent]   IntelliWidget.innerContent
  headElements,   \* [Widgets -> Seq(node)]          IntelliWidget.headElements
  bodyScripts,    \* [Widgets -> Seq(node)]          IntelliWidget.bodyScripts
  instances,      \* [Widgets -> Seq(Selectors)]     IntelliWidget.instances
  inflight,       \* fetch calls awaiting their response
  defined,        \* the globals of window that are defined
  present,        \* [Selectors -> BOOLEAN]  document.querySelector finds it
  html,           \* [Selectors -> token sequence]   innerHTML of the target
  head,           \* children the SDK appended to document.head
  style,          \* innerText of the aggregated style element, in chunks
  body,           \* inline scripts in document.body awaiting their timer
  lastOp,         \* the last call or page event and how it ended
  now,            \* Date.now(), in ms since the page was loaded
  facade,         \* [Facades -> the fields of an IntelliProveWidgets]
  loadingFetch,   \* [Facades -> the fetchLoadingWidget recursion]
  moduleTags,     \* [ModuleUris -> number of its script tags in head]
  frames,         \* facades with a requestAnimationFrame callback pending
  listeners,      \* the widgets constructed: their message listeners
  readyAt,        \* the time loaded() first held, -1 before
  calls,          \* [1..MaxCalls -> a call of the facade's async methods]
  amd,            \* window.define.amd, or NoDefine without a define function
  restores        \* the restore closures of InjectWithAMDLoaderDisabled

vars == <<innerContent, headElements, bodyScripts, instances, inflight,
          defined, present, html, head, style, body, lastOp,
          now, facade, loadingFetch, moduleTags, frames, listeners, readyAt, calls,
          amd, restores>>

widgetVars == <<innerContent, headElements, bodyScripts, instances>>
domVars == <<html, head, style, body>>
facadeVars == <<now, facade, loadingFetch, moduleTags, frames, listeners, readyAt,
                amd, restores>>

Empty == <<>>

(***************************************************************************)
(* IntelliProveWidgets: readiness predicates.                              *)
(***************************************************************************)
chartJSLoaded(win) == "Chart" \in win
chartJSPluginsLoaded(win) == "ChartDataLabels" \in win
d3Loaded(win) == "d3" \in win
\* a readiness gate that also waits for the visualization library
loadedWithD3(win) == chartJSLoaded(win) /\ chartJSPluginsLoaded(win) /\ d3Loaded(win)

loaded(win) == chartJSLoaded(win) /\ chartJSPluginsLoaded(win)

(***************************************************************************)
(* Asset injection.  A world is the part of the state mount works on:      *)
(* [inst, hes, head, style, body, html].                                   *)
(***************************************************************************)
World(w) ==
  [inst |-> instances[w], hes |-> headElements[w], head |-> head,
   style |-> style, body |-> body, html |-> html]

\* String.prototype.replaceAll("intelli-widget-id", uid)
ReplaceAll(text, uid) ==
  [i \in DOMAIN text |-> IF text[i] = Placeholder THEN uid ELSE text[i]]

Includes(seq, x) == \E i \in DOMAIN seq : seq[i] = x

HeadScript(src) == [tag |-> "script", src |-> src, pos |-> 0]
HeadLink(el) == [tag |-> "link", src |-> "", pos |-> el.pos]

\* document.head.appendChild(node) of a node that may already be a child
AppendChild(children, node) ==
  Append(SelectSeq(children, LAMBDA c : c # node), node)

\* IntelliProveWidgets.injectHeadElement(element, replaceId), element being
\* headElements[i]
\* an injectHeadElement that skips a script whose src is already in the head
injectHeadElementOnce(wd, i, replaceId) ==
  LET el == [wd.hes[i] EXCEPT !.text = ReplaceAll(@, replaceId)]
      wd1 == [wd EXCEPT !.hes[i] = el]
  IN CASE el.tag = "script" ->
            [wd1 EXCEPT !.head = IF Includes(@, HeadScript(el.src)) THEN @
                                 ELSE Append(@, HeadScript(el.src))]
       [] el.tag = "style" -> [wd1 EXCEPT !.style = Append(@, el.text)]
       [] el.tag = "link" -> [wd1 EXCEPT !.head = AppendChild(@, HeadLink(el))]

injectHeadElement(wd, i, replaceId) ==
  LET el == [wd.hes[i] EXCEPT !.text = ReplaceAll(@, replaceId)]
      wd1 == [wd EXCEPT !.hes[i] = el]
  IN CASE el.tag = "script" -> [wd1 EXCEPT !.head = Append(@, HeadScript(el.src))]
       [] el.tag = "style" -> [wd1 EXCEPT !.style = Append(@, el.text)]
       [] el.tag = "link" -> [wd1 EXCEPT !.head = AppendChild(@, HeadLink(el))]

RECURSIVE InjectHeadFrom(_, _, _)
InjectHeadFrom(wd, i, uid) ==
  IF i > Len(wd.hes) THEN wd
  ELSE InjectHeadFrom(injectHeadElement(wd, i, uid), i + 1, uid)

\* IntelliWidget.injectBodyScript(script, replaceId)
injectBodyScript(wd, script, replaceId) ==
  [wd EXCEPT !.body = Append(@, ReplaceAll(script.text, replaceId))]

RECURSIVE InjectBodyFrom(_, _, _, _)
InjectBodyFrom(wd, scripts, i, uid) ==
  IF i > Len(scripts) THEN wd
  ELSE InjectBodyFrom(injectBodyScript(wd, scripts[i], uid), scripts, i + 1, uid)

(***************************************************************************)
(* IntelliWidget.mount as a function of the world: the world after the     *)
(* call, the error it threw ("" when it returned) and the uid it used.     *)
(***************************************************************************)
MountUid(w, inst) == w \o "-" \o ToString(Len(inst))

\* a mount that registers the selector without looking for it first
MountRegisterAlways(inst, selector) == Append(inst, selector)

MountRegister(inst, selector) ==
  IF ~Includes(inst, selector) THEN Append(inst, selector) ELSE inst

MountRender(wd, content, selector, uid) ==
  IF content # NoContent
  THEN [wd EXCEPT !.html[selector] = ReplaceAll(content.text, uid)]
  ELSE wd

\* a mount that tests loaded() only after the head assets were injected
mountInjectsBeforeLoadedCheck(wd, w, content, scripts, selector, win, found) ==
  IF ~found[selector]
    THEN [wd |-> wd, err |-> "Error: No element found", uid |-> ""]
  ELSE
    LET uid == MountUid(w, wd.inst)
        wd1 == InjectHeadFrom(wd, 1, uid)
        wd2 == [wd1 EXCEPT !.inst = MountRegister(@, selector)]
        wd3 == MountRender(wd2, content, selector, uid)
        wd4 == InjectBodyFrom(wd3, scripts, 1, uid)
    IN IF ~loaded(win)
         THEN [wd |-> wd1, err |-> "Error: not loaded", uid |-> ""]
         ELSE [wd |-> wd4, err |-> "", uid |-> uid]

mount(wd, w, content, scripts, selector, win, found) ==
  IF ~found[selector]
    THEN [wd |-> wd, err |-> "Error: No element found", uid |-> ""]
  ELSE IF ~loaded(win)
    THEN [wd |-> wd, err |-> "Error: not loaded", uid |-> ""]
  ELSE
    LET uid == MountUid(w, wd.inst)
        wd1 == InjectHeadFrom(wd, 1, uid)
        wd2 == [wd1 EXCEPT !.inst = MountRegister(@, selector)]
        wd3 == MountRender(wd2, content, selector, uid)
        wd4 == InjectBodyFrom(wd3, scripts, 1, uid)
    IN [wd |-> wd4, err |-> "", uid |-> uid]

\* IntelliWidget.updateAll: the loop over the snapshot, from index i
RECURSIVE UpdateFrom(_, _, _, _, _, _, _, _)
UpdateFrom(wd, w, content, scripts, snapshot, i, win, found) ==
  IF i > Len(snapshot) THEN wd
  ELSE UpdateFrom(mount(wd, w, content, scripts, snapshot[i], win, found).wd,
                  w, content, scripts, snapshot, i + 1, win, found)

\* an updateAll without the try/catch: the first mount that throws ends
\* the loop
updateAllStopsAtFailure(wd, w, content, scripts, win, found) ==
  LET fails(i) == ~found[wd.inst[i]] \/ ~loaded(win)
      n == IF \E i \in DOMAIN wd.inst : fails(i)
           THEN (CHOOSE i \in DOMAIN wd.inst :
                   fails(i) /\ \A j \in 1..(i - 1) : ~fails(j)) - 1
           ELSE Len(wd.inst)
  IN UpdateFrom([wd EXCEPT !.inst = <<>>], w, content, scripts,
                SubSeq(wd.inst, 1, n), 1, win, found)

updateAll(wd, w, content, scripts, win, found) ==
  UpdateFrom([wd EXCEPT !.inst = <<>>], w, content, scripts, wd.inst, 1, win, found)

\* IntelliWidget.removeAll: the loop, then this.instances = []
RECURSIVE RemoveFrom(_, _, _, _)
RemoveFrom(wd, list, i, found) ==
  IF i > Len(list) THEN wd
  ELSE RemoveFrom(IF found[list[i]] THEN [wd EXCEPT !.html[list[i]] = Empty] ELSE wd,
                  list, i + 1, found)

\* a removeAll that returns at the first selector without an element
removeAllReturnsOnMissing(wd, found) ==
  IF \E i \in DOMAIN wd.inst : ~found[wd.inst[i]]
  THEN LET k == CHOOSE i \in DOMAIN wd.inst :
                  ~found[wd.inst[i]] /\ \A j \in 1..(i - 1) : found[wd.inst[j]]
       IN RemoveFrom(wd, SubSeq(wd.inst, 1, k - 1), 1, found)
  ELSE [RemoveFrom(wd, wd.inst, 1, found) EXCEPT !.inst = <<>>]

\* a removeAll that empties the target elements and keeps the list
removeAllKeepsList(wd, found) == RemoveFrom(wd, wd.inst, 1, found)

removeAll(wd, found) == [RemoveFrom(wd, wd.inst, 1, found) EXCEPT !.inst = <<>>]

\* the selectors removeAll warned about
RemoveWarned(list, found) == SelectSeq(list, LAMBDA sel : ~found[sel])

(***************************************************************************)
(* The record of the last operation.                                        *)
(***************************************************************************)
NoResp == [status |-> 0, body |-> JsonText(JUndefined)]

Op(op, w) ==
  [op |-> op, w |-> w, sel |-> "", locale |-> "", cont |-> "", uid |-> "",
   err |-> "", arg |-> JUndefined, resp |-> NoResp, list |-> <<>>, warned |-> <<>>]

\* window.postMessage payloads
Msg(type, hasTarget, target, kind, data) ==
  [type |-> type, hasTarget |-> hasTarget, target |-> target, kind |-> kind, data |-> data]

MessageData ==
  {Msg("object", TRUE, "intelli-widgets", "language", l) : l \in Locales \ {NoLocale}}
  \cup { Msg("object", TRUE, "intelli-widgets", "clear", ""),
         Msg("object", TRUE, "intelli-widgets", "resize", ""),
         Msg("object", TRUE, "other-app", "language", "fr"),
         Msg("object", FALSE, "", "", ""),
         Msg("string", FALSE, "", "", ""),
         Msg("null", FALSE, "", "", "") }

WithinCaps(wd) ==
  /\ Len(wd.head) <= MaxHead
  /\ Len(wd.style) <= MaxStyle
  /\ Len(wd.body) <= MaxBody

\* a mount-point list that all widgets share
CommitShared(w, wd) ==
  /\ instances' = [v \in AllWidgets |-> wd.inst]
  /\ headElements' = [headElements EXCEPT ![w] = wd.hes]
  /\ head' = wd.head
  /\ style' = wd.style
  /\ body' = wd.body
  /\ html' = wd.html

\* write a world back to the state of widget w and the document
Commit(w, wd) ==
  /\ instances' = [instances EXCEPT ![w] = wd.inst]
  /\ headElements' = [headElements EXCEPT ![w] = wd.hes]
  /\ head' = wd.head
  /\ style' = wd.style
  /\ body' = wd.body
  /\ html' = wd.html

(***************************************************************************)
(* IntelliProveWidgets: the facade, its placeholder promise and the calls  *)
(* of its async methods.                                                   *)
(***************************************************************************)
PollMs == 50
LoadBudgetMs == 10000
MaxRetries == 5

ChartUri == "third-party/v1/chartjs.js"
D3Uri == "third-party/v1/d3.js"
PluginUri == "third-party/v1/chartjs-plugin-datalabels.js"
ModuleUris == {ChartUri, D3Uri, PluginUri}

\* this._loadingWidgetPromise
NoPromise == [st |-> "null", val |-> <<>>, err |-> ""]
Pending == [st |-> "pending", val |-> <<>>, err |-> ""]
Fulfilled(val) == [st |-> "resolved", val |-> val, err |-> ""]
Rejected(err) == [st |-> "rejected", val |-> <<>>, err |-> err]

NoFacade ==
  [made |-> FALSE, modulesLoadStart |-> 0, locale |-> NoLocale, promise |-> NoPromise,
   preventAmdLoader |-> FALSE]

\* the fields the constructor sets at time t
NewFacadeFields(t) ==
  [made |-> TRUE, modulesLoadStart |-> t, locale |-> NoLocale, promise |-> NoPromise,
   preventAmdLoader |-> FALSE]

\* window.define.amd: no define function on the page, the property
\* undefined, or the object of the page's AMD loader
NoDefine == "no-define"
AmdUndefined == "undefined"
AmdLoader == "loader"

\* typeof window.define === 'function' && window.define.amd
amdActive(a) == a \notin {NoDefine, AmdUndefined}

\* InjectWithAMDLoaderDisabled(loadFn) called by injectModule for the uri of
\* facade f: amd is stored and set to undefined when active, loadFn appends
\* the tag, and the restore closure waits for the script's load or error
\* event; oldAmd is undefined when amd was not active
InjectWithAMDLoaderDisabled(m, f, uri) ==
  LET oldAmd == IF amdActive(m.amd) THEN m.amd ELSE AmdUndefined
      disabled == IF amdActive(m.amd) THEN [m EXCEPT !.amd = AmdUndefined] ELSE m
      injected == [disabled EXCEPT !.tags[uri] = @ + 1]
  IN [injected EXCEPT
        !.restores = @ \cup {[f |-> f, uri |-> uri, oldAmd |-> oldAmd, st |-> "loading"]}]

\* the restore closure: window.define.amd = oldAmd if amd is active
restore(a, oldAmd) == IF amdActive(a) THEN oldAmd ELSE a

\* injectModule(uri, conditionCheck) of facade f on
\* m = [tags, frames, amd, restores, prevent], prevent being
\* this.preventAmdLoader
\* an injectModule that appends the tag without testing the condition
injectModuleUnconditional(m, uri, f, conditionHolds) ==
  [m EXCEPT !.tags[uri] = @ + 1]

injectModule(m, uri, f, conditionHolds) ==
  IF ~conditionHolds THEN [m EXCEPT !.frames = @ \cup {f}]
  ELSE IF m.prevent THEN InjectWithAMDLoaderDisabled(m, f, uri)
  ELSE [m EXCEPT !.tags[uri] = @ + 1]

load(m, f, win) ==
  LET m1 == injectModule(m, ChartUri, f, TRUE)
      m2 == injectModule(m1, D3Uri, f, TRUE)
  IN injectModule(m2, PluginUri, f, chartJSLoaded(win))

loadTimeExceeded(modulesLoadStart, t) == modulesLoadStart + LoadBudgetMs < t

\* the response of GET widget-loading.html
NoLoadingResp == [status |-> 0, text |-> <<>>]
LoadingTexts == {<<"spinner">>, <<"skeleton">>}
LoadingResponses ==
  [status : {200}, text : LoadingTexts]
    \cup [status : {404, 500}, text : {<<"error page">>}]

LoadingText == <<"Loading...">>

\* the fetchLoadingWidget recursion of a facade: chains started, GET
\* requests issued, the retries argument of the invocation that awaits a
\* response, and the last response
NoLoading ==
  [started |-> 0, gets |-> 0, retries |-> 0, awaiting |-> FALSE, last |-> NoLoadingResp]

\* a retry limit that is off by one
RetriesExhaustedLate(retries) == retries > MaxRetries

RetriesExhausted(retries) == retries >= MaxRetries

\* fetchLoadingWidget(retries) up to its await: the recursion and what its
\* promise is
fetchLoadingWidget(lf, retries) ==
  IF RetriesExhausted(retries)
  THEN [lf |-> [lf EXCEPT !.retries = retries, !.awaiting = FALSE],
        settled |-> Fulfilled(LoadingText)]
  ELSE [lf |-> [lf EXCEPT !.retries = retries, !.gets = @ + 1, !.awaiting = TRUE],
        settled |-> Pending]

\* a memo that only counts once the placeholder has arrived
LoadingWidgetMemoizedWhenResolved(promise) == promise.st = "resolved"

\* if (this._loadingWidgetPromise)
LoadingWidgetMemoized(promise) == promise.st # "null"

\* getLoadingWidget up to its await: the facade and its recursion
getLoadingWidget(fc, lf) ==
  IF LoadingWidgetMemoized(fc.promise) THEN [fc |-> fc, lf |-> lf]
  ELSE LET r == fetchLoadingWidget([lf EXCEPT !.started = @ + 1], 0)
       IN [fc |-> [fc EXCEPT !.promise = r.settled], lf |-> r.lf]

MsgModules == JStr("Failed to load required JS modules for our widgets, please reload the page. If this issue persists, please contact our support team.")

\* a call of getLoadingWidget, getWidget or mountWidget
NoCall ==
  [op |-> "none", f |-> "", pc |-> "", sel |-> "", w |-> "", wake |-> 0,
   val |-> <<>>, err |-> "", arg |-> JUndefined]

\* the page after `new IntelliProveWidgets(token)` of facade "f1" at time 0
\* and `new IntelliWidget(...)` of widget "w1", no library loaded yet
Init ==
  /\ innerContent = [w \in AllWidgets |-> NoContent]
  /\ headElements = [w \in AllWidgets |-> <<>>]
  /\ bodyScripts = [w \in AllWidgets |-> <<>>]
  /\ instances = [w \in AllWidgets |-> <<>>]
  /\ inflight = {}
  /\ defined = {}
  /\ present = [s \in Selectors |-> TRUE]
  /\ html = [s \in Selectors |-> Empty]
  /\ head = <<>>
  /\ style = <<>>
  /\ body = <<>>
  /\ lastOp = Op("new", "")
  /\ now = 0
  /\ facade = [f \in Facades |-> IF f = "f1" THEN NewFacadeFields(0) ELSE NoFacade]
  /\ LET m == load([tags |-> [u \in ModuleUris |-> 0], frames |-> {}, amd |-> NoDefine,
                    restores |-> {}, prevent |-> FALSE], "f1", {})
     IN moduleTags = m.tags /\ frames = m.frames /\ amd = m.amd /\ restores = m.restores
  /\ loadingFetch = [f \in Facades |-> NoLoading]
  /\ listeners = {"w1"}
  /\ readyAt = -1
  /\ calls = [c \in 1..MaxCalls |-> NoCall]

(***************************************************************************)
(* IntelliWidget.fetch: the request is issued ...                          *)
(***************************************************************************)
\* at most n fetch calls of one widget await their response
FreeIdsWithin(w, n) == (1..n) \ {r.id : r \in {q \in inflight : q.w = w}}

NewRequestWithin(w, locale, cont, n) ==
  [id |-> CHOOSE i \in FreeIdsWithin(w, n) : \A j \in FreeIdsWithin(w, n) : i <= j,
   w |-> w, locale |-> locale, cont |-> cont]

\* at most MaxInflight of them, except where language messages overlap
FreeIds(w) == FreeIdsWithin(w, MaxInflight)

NewRequest(w, locale, cont) == NewRequestWithin(w, locale, cont, MaxInflight)

StartFetch(w, locale, cont) ==
  /\ FreeIds(w) # {}
  /\ inflight' = inflight \cup {NewRequest(w, locale, cont)}

FetchCall(w, locale) ==
  /\ StartFetch(w, locale, "")
  /\ UNCHANGED <<widgetVars, domVars, defined, present, lastOp, facadeVars, calls>>

(***************************************************************************)
(* ... and its response arrives.  A language message handler continues     *)
(* with updateAll when the fetch resolved.                                 *)
(***************************************************************************)
\* a fetch that empties headElements before it looks at the status
FetchRejectResetsHead(req, resp, out) ==
  /\ lastOp' = [Op("fetch", req.w) EXCEPT !.locale = req.locale, !.cont = req.cont,
                  !.err = out.name, !.arg = out.arg, !.resp = resp]
  /\ headElements' = [headElements EXCEPT ![req.w] = <<>>]
  /\ UNCHANGED <<innerContent, bodyScripts, instances, domVars>>

\* a language message handler that runs updateAll although fetch threw
FetchRejectRunsUpdateAll(req, resp, out) ==
  /\ lastOp' = [Op("fetch", req.w) EXCEPT !.locale = req.locale, !.cont = req.cont,
                  !.err = out.name, !.arg = out.arg, !.resp = resp]
  /\ IF req.cont = "updateAll"
     THEN Commit(req.w, updateAll(World(req.w), req.w, innerContent[req.w],
                                  bodyScripts[req.w], defined, present))
     ELSE UNCHANGED <<headElements, instances, domVars>>
  /\ UNCHANGED <<innerContent, bodyScripts>>

FetchReject(req, resp, out) ==
  /\ lastOp' = [Op("fetch", req.w) EXCEPT !.locale = req.locale, !.cont = req.cont,
                  !.err = out.name, !.arg = out.arg, !.resp = resp]
  /\ UNCHANGED <<widgetVars, domVars>>

\* the getWidget or mountWidget call that awaits the fetch of req
IsCallFetch(req) == req.cont \in {"getWidget", "mountWidget"}
CallOf(req) == CHOOSE c \in DOMAIN calls : calls[c].pc = "fetching" /\ calls[c].w = req.w

\* the call rejects with what fetch threw
RejectCall(req, out) ==
  IF IsCallFetch(req)
  THEN [calls EXCEPT ![CallOf(req)] =
          [@ EXCEPT !.pc = "failed", !.err = out.name, !.arg = out.arg]]
  ELSE calls

\* fetch resolved: updateAll follows in a language message handler,
\* widget.mount(selector) in mountWidget, and getWidget returns the widget
FetchResolve(req, resp) ==
  LET w == req.w
      nodes == ParseHtml(resp.body.markup)
      content == FetchInnerContent(nodes)
      scripts == FetchBodyScripts(nodes)
      wd0 == [World(w) EXCEPT !.hes = FetchHeadElements(nodes)]
      m == mount(wd0, w, content, scripts, calls[CallOf(req)].sel, defined, present)
      wd == CASE req.cont = "updateAll" ->
                   updateAll(wd0, w, content, scripts, defined, present)
              [] req.cont = "mountWidget" -> m.wd
              [] OTHER -> wd0
  IN /\ WithinCaps(wd)
     /\ innerContent' = [innerContent EXCEPT ![w] = content]
     /\ bodyScripts' = [bodyScripts EXCEPT ![w] = scripts]
     /\ Commit(w, wd)
     /\ lastOp' = IF req.cont = "mountWidget"
                  THEN [Op("mount", w) EXCEPT !.sel = calls[CallOf(req)].sel,
                          !.uid = m.uid, !.err = m.err]
                  ELSE [Op("fetch", w) EXCEPT !.locale = req.locale, !.cont = req.cont,
                          !.resp = resp]
     /\ calls' = CASE req.cont = "mountWidget" /\ m.err # "" ->
                       [calls EXCEPT ![CallOf(req)] = [@ EXCEPT !.pc = "failed", !.err = m.err]]
                   [] IsCallFetch(req) /\ (req.cont = "getWidget" \/ m.err = "") ->
                       [calls EXCEPT ![CallOf(req)] = [@ EXCEPT !.pc = "done"]]
                   [] OTHER -> calls

FetchReturn(req, resp) ==
  /\ req \in inflight
  /\ inflight' = inflight \ {req}
  /\ LET out == FetchOutcome(resp)
     IN IF out.kind = "reject"
        THEN FetchReject(req, resp, out) /\ calls' = RejectCall(req, out)
        ELSE FetchResolve(req, resp)
  /\ UNCHANGED <<defined, present, facadeVars>>

\* the request itself fails: await fetch(url) rejects with a TypeError
FetchNetworkError(req) ==
  /\ req \in inflight
  /\ inflight' = inflight \ {req}
  /\ FetchReject(req, NoResp, Thrown("TypeError", JUndefined))
  /\ calls' = RejectCall(req, Thrown("TypeError", JUndefined))
  /\ UNCHANGED <<defined, present, facadeVars>>

(***************************************************************************)
(* IntelliWidget.mount / updateAll / removeAll called by the page.         *)
(***************************************************************************)
Mount(w, selector) ==
  LET r == mount(World(w), w, innerContent[w], bodyScripts[w], selector, defined, present)
  IN /\ WithinCaps(r.wd)
     /\ Commit(w, r.wd)
     /\ lastOp' = [Op("mount", w) EXCEPT !.sel = selector, !.uid = r.uid, !.err = r.err]
     /\ UNCHANGED <<innerContent, bodyScripts, inflight, defined, present, facadeVars, calls>>

UpdateAll(w) ==
  LET wd == updateAll(World(w), w, innerContent[w], bodyScripts[w], defined, present)
  IN /\ WithinCaps(wd)
     /\ Commit(w, wd)
     /\ lastOp' = Op("updateAll", w)
     /\ UNCHANGED <<innerContent, bodyScripts, inflight, defined, present, facadeVars, calls>>

RemoveAll(w) ==
  /\ Commit(w, removeAll(World(w), present))
  /\ lastOp' = [Op("removeAll", w) EXCEPT !.list = instances[w],
                   !.warned = RemoveWarned(instances[w], present)]
  /\ UNCHANGED <<innerContent, bodyScripts, inflight, defined, present, facadeVars, calls>>

(***************************************************************************)
(* IntelliWidget.eventHandler for one message event.                       *)
(***************************************************************************)
\* typeof data: "string" for a primitive, "object" for null and for objects
TypeofIsObject(data) == data.type \in {"object", "null"}

EventHandler(w, data) ==
  /\ UNCHANGED <<facadeVars, calls>>
  /\ IF ~TypeofIsObject(data) THEN
       /\ lastOp' = Op("message-ignored", w)
       /\ UNCHANGED <<widgetVars, domVars, inflight, defined, present>>
     ELSE IF data.type = "null" THEN
       \* "target" in null throws a TypeError: the handler's promise rejects
       /\ lastOp' = [Op("message-ignored", w) EXCEPT !.err = "TypeError"]
       /\ UNCHANGED <<widgetVars, domVars, inflight, defined, present>>
     ELSE IF ~data.hasTarget THEN
       /\ lastOp' = Op("message-ignored", w)
       /\ UNCHANGED <<widgetVars, domVars, inflight, defined, present>>
     ELSE IF data.target # "intelli-widgets" THEN
       /\ lastOp' = Op("message-ignored", w)
       /\ UNCHANGED <<widgetVars, domVars, inflight, defined, present>>
     ELSE IF data.kind = "language" THEN
       /\ StartFetch(w, data.data, "updateAll")
       /\ lastOp' = [Op("message-language", w) EXCEPT !.locale = data.data]
       /\ UNCHANGED <<widgetVars, domVars, defined, present>>
     ELSE IF data.kind = "clear" THEN
       /\ Commit(w, removeAll(World(w), present))
       /\ lastOp' = [Op("message-clear", w) EXCEPT !.list = instances[w],
                        !.warned = RemoveWarned(instances[w], present)]
       /\ UNCHANGED <<innerContent, bodyScripts, inflight, defined, present>>
     ELSE
       /\ lastOp' = Op("message-invalid", w)
       /\ UNCHANGED <<widgetVars, domVars, inflight, defined, present>>

(***************************************************************************)
(* The page and the browser.                                               *)
(***************************************************************************)
\* a library script has run and defined its global
LibraryLoaded(g) ==
  /\ g \notin defined
  /\ defined' = defined \cup {g}
  /\ readyAt' = IF readyAt = -1 /\ loaded(defined') THEN now ELSE readyAt
  /\ UNCHANGED <<widgetVars, domVars, inflight, present, lastOp>>
  /\ UNCHANGED <<now, facade, loadingFetch, moduleTags, frames, listeners, calls>>
  /\ UNCHANGED <<amd, restores>>

\* the page removes a target element from the document
Detach(selector) ==
  /\ present[selector]
  /\ present' = [present EXCEPT ![selector] = FALSE]
  /\ html' = [html EXCEPT ![selector] = Empty]
  /\ lastOp' = [Op("detach", "") EXCEPT !.sel = selector]
  /\ UNCHANGED <<widgetVars, head, style, body, inflight, defined, facadeVars, calls>>

\* the page adds an empty target element for the selector
Attach(selector) ==
  /\ ~present[selector]
  /\ present' = [present EXCEPT ![selector] = TRUE]
  /\ lastOp' = [Op("attach", "") EXCEPT !.sel = selector]
  /\ UNCHANGED <<widgetVars, domVars, inflight, defined, facadeVars, calls>>

\* the 500 ms timer of the oldest injected body script: newScript.remove()
\* a timer that removes every injected script, not only its own
ScriptTimerRemovesAll ==
  /\ body # <<>>
  /\ body' = <<>>
  /\ UNCHANGED <<widgetVars, html, head, style, inflight, defined, present, lastOp,
                  facadeVars, calls>>

ScriptTimer ==
  /\ body # <<>>
  /\ body' = Tail(body)
  /\ UNCHANGED <<widgetVars, html, head, style, inflight, defined, present, lastOp,
                  facadeVars, calls>>

(***************************************************************************)
(* The facade's operations.                                                *)
(***************************************************************************)
\* new IntelliProveWidgets(...) of one more facade
\* (prevent is the constructor's preventAmdLoader argument)
NewFacadeWith(f, prevent) ==
  /\ ~facade[f].made
  /\ facade' = [facade EXCEPT
                  ![f] = [NewFacadeFields(now) EXCEPT !.preventAmdLoader = prevent]]
  /\ LET m == load([tags |-> moduleTags, frames |-> frames, amd |-> amd,
                    restores |-> restores, prevent |-> prevent], f, defined)
     IN /\ moduleTags' = m.tags /\ frames' = m.frames
        /\ amd' = m.amd /\ restores' = m.restores
  /\ UNCHANGED <<widgetVars, domVars, inflight, defined, present, lastOp>>
  /\ UNCHANGED <<now, loadingFetch, listeners, readyAt, calls>>

NewFacade(f) == NewFacadeWith(f, FALSE)

\* the animation frame callback injectModule registered for the plugin
AnimationFrame(f) ==
  /\ f \in frames
  /\ LET m == injectModule([tags |-> moduleTags, frames |-> frames \ {f}, amd |-> amd,
                            restores |-> restores,
                            prevent |-> facade[f].preventAmdLoader],
                           PluginUri, f, chartJSLoaded(defined))
     IN /\ moduleTags' = m.tags /\ frames' = m.frames
        /\ amd' = m.amd /\ restores' = m.restores
  /\ UNCHANGED <<widgetVars, domVars, inflight, defined, present, lastOp>>
  /\ UNCHANGED <<now, facade, loadingFetch, listeners, readyAt, calls>>

\* the load or error event of a script injected with the AMD loader
\* disabled: requestAnimationFrame(restore)
ScriptEvent(r) ==
  /\ r \in restores /\ r.st = "loading"
  /\ restores' = (restores \ {r}) \cup {[r EXCEPT !.st = "frame"]}
  /\ UNCHANGED <<widgetVars, domVars, inflight, defined, present, lastOp, calls>>
  /\ UNCHANGED <<now, facade, loadingFetch, moduleTags, frames, listeners, readyAt, amd>>

\* the animation frame of a restore closure
RestoreFrame(r) ==
  /\ r \in restores /\ r.st = "frame"
  /\ amd' = restore(amd, r.oldAmd)
  /\ restores' = restores \ {r}
  /\ UNCHANGED <<widgetVars, domVars, inflight, defined, present, lastOp, calls>>
  /\ UNCHANGED <<now, facade, loadingFetch, moduleTags, frames, listeners, readyAt>>

\* the page's AMD loader runs and defines window.define with its amd object
AmdLoaderDefined ==
  /\ amd = NoDefine
  /\ amd' = AmdLoader
  /\ UNCHANGED <<widgetVars, domVars, inflight, defined, present, lastOp, calls>>
  /\ UNCHANGED <<now, facade, loadingFetch, moduleTags, frames, listeners, readyAt,
                  restores>>

\* time passes
Tick ==
  /\ now + TickMs <= MaxClock
  /\ now' = now + TickMs
  /\ UNCHANGED <<widgetVars, domVars, inflight, defined, present, lastOp>>
  /\ UNCHANGED <<facade, loadingFetch, moduleTags, frames, listeners, readyAt, amd, restores, calls>>

\* the page constructs a widget itself: new IntelliWidget(...)
NewWidget(w) ==
  /\ w \notin listeners
  /\ listeners' = listeners \cup {w}
  /\ UNCHANGED <<widgetVars, domVars, inflight, defined, present, lastOp>>
  /\ UNCHANGED <<now, facade, loadingFetch, moduleTags, frames, readyAt, amd, restores, calls>>

\* changeLanguage(locale): the message reaches the listener of every
\* widget, and each handler runs up to its await of fetch(locale)
\* (n bounds the fetch calls of one widget that await their response)
ChangeLanguageWithin(f, locale, n) ==
  /\ facade[f].made
  /\ \A w \in listeners : FreeIdsWithin(w, n) # {}
  /\ facade' = [facade EXCEPT ![f].locale = locale]
  /\ inflight' = inflight \cup {NewRequestWithin(w, locale, "updateAll", n) : w \in listeners}
  /\ lastOp' = [Op("changeLanguage", "") EXCEPT !.locale = locale]
  /\ UNCHANGED <<widgetVars, domVars, defined, present>>
  /\ UNCHANGED <<now, loadingFetch, moduleTags, frames, listeners, readyAt, amd, restores, calls>>

ChangeLanguage(f, locale) == ChangeLanguageWithin(f, locale, MaxInflight)

HasFreeCall == \E c \in DOMAIN calls : calls[c].op = "none"
FreeCall == CHOOSE c \in DOMAIN calls :
              calls[c].op = "none" /\ \A d \in DOMAIN calls : calls[d].op = "none" => c <= d

\* the call awaits the placeholder promise, which getLoadingWidget creates
\* when there is none
AwaitLoadingWidget(f, call) ==
  /\ facade[f].made
  /\ HasFreeCall
  /\ LET r == getLoadingWidget(facade[f], loadingFetch[f])
     IN /\ facade' = [facade EXCEPT ![f] = r.fc]
        /\ loadingFetch' = [loadingFetch EXCEPT ![f] = r.lf]
  /\ calls' = [calls EXCEPT ![FreeCall] = [call EXCEPT !.f = f, !.pc = "loading"]]
  /\ UNCHANGED <<widgetVars, domVars, inflight, defined, present, lastOp>>
  /\ UNCHANGED <<now, moduleTags, frames, listeners, readyAt, amd, restores>>

GetLoadingWidgetCall(f) ==
  AwaitLoadingWidget(f, [NoCall EXCEPT !.op = "getLoadingWidget"])

\* mountWidget up to `await this.getLoadingWidget()`
MountWidgetCall(f, selector) ==
  AwaitLoadingWidget(f, [NoCall EXCEPT !.op = "mountWidget", !.sel = selector])

\* the response of a placeholder request arrives
LoadingResponse(f, resp) ==
  /\ loadingFetch[f].awaiting
  /\ LET lf == [loadingFetch[f] EXCEPT !.last = resp]
         r == IF resp.status # 200
              THEN fetchLoadingWidget(lf, lf.retries + 1)
              ELSE [lf |-> [lf EXCEPT !.awaiting = FALSE], settled |-> Fulfilled(resp.text)]
     IN /\ loadingFetch' = [loadingFetch EXCEPT ![f] = r.lf]
        /\ facade' = [facade EXCEPT ![f].promise = r.settled]
  /\ UNCHANGED <<widgetVars, domVars, inflight, defined, present, lastOp>>
  /\ UNCHANGED <<now, moduleTags, frames, listeners, readyAt, amd, restores, calls>>

\* the placeholder request itself fails: the promise rejects
LoadingNetworkError(f) ==
  /\ loadingFetch[f].awaiting
  /\ loadingFetch' = [loadingFetch EXCEPT ![f].awaiting = FALSE]
  /\ facade' = [facade EXCEPT ![f].promise = Rejected("TypeError")]
  /\ UNCHANGED <<widgetVars, domVars, inflight, defined, present, lastOp>>
  /\ UNCHANGED <<now, moduleTags, frames, listeners, readyAt, amd, restores, calls>>

\* a readiness test that looks at the chart library only
GetWidgetReadyChartOnly(win) == chartJSLoaded(win)

\* while (!IntelliProveWidgets.loaded())
GetWidgetReady(win) == loaded(win)

HasFreshWidget == AllWidgets \ listeners # {}
FreshWidget == CHOOSE w \in AllWidgets \ listeners : TRUE

\* getWidget from the test of its while loop to its next await: the widget
\* is constructed and its fetch issued, or the call sleeps for 50 ms
GetWidgetLoop(c, call) ==
  IF GetWidgetReady(defined)
  THEN /\ HasFreshWidget
       /\ StartFetch(FreshWidget, facade[call.f].locale, call.op)
       /\ listeners' = listeners \cup {FreshWidget}
       /\ calls' = [calls EXCEPT ![c] = [call EXCEPT !.pc = "fetching", !.w = FreshWidget]]
  ELSE /\ calls' = [calls EXCEPT ![c] = [call EXCEPT !.pc = "sleeping", !.wake = now + PollMs]]
       /\ UNCHANGED <<inflight, listeners>>

GetWidgetCall(f) ==
  /\ facade[f].made
  /\ HasFreeCall
  /\ GetWidgetLoop(FreeCall, [NoCall EXCEPT !.op = "getWidget", !.f = f])
  /\ UNCHANGED <<widgetVars, domVars, defined, present, lastOp>>
  /\ UNCHANGED <<now, facade, loadingFetch, moduleTags, frames, readyAt, amd, restores>>

\* the 50 ms timer of a sleeping getWidget fires, on time or late
PollWake(c) ==
  /\ calls[c].pc = "sleeping"
  /\ now >= calls[c].wake
  /\ IF loadTimeExceeded(facade[calls[c].f].modulesLoadStart, now)
     THEN /\ calls' = [calls EXCEPT ![c] = [@ EXCEPT !.pc = "failed",
                          !.err = "IntelliSdkLoadingError", !.arg = MsgModules]]
          /\ UNCHANGED <<inflight, listeners>>
     ELSE GetWidgetLoop(c, calls[c])
  /\ UNCHANGED <<widgetVars, domVars, defined, present, lastOp>>
  /\ UNCHANGED <<now, facade, loadingFetch, moduleTags, frames, readyAt, amd, restores>>

\* the await of the placeholder promise ends: getLoadingWidget returns the
\* text; mountWidget calls getWidget and paints the placeholder
LoadingWidgetAwaited(c) ==
  LET call == calls[c]
      promise == facade[call.f].promise
  IN /\ call.pc = "loading"
     /\ promise.st \in {"resolved", "rejected"}
     /\ IF promise.st = "rejected"
        THEN /\ calls' = [calls EXCEPT ![c] = [@ EXCEPT !.pc = "failed", !.err = promise.err]]
             /\ UNCHANGED <<inflight, listeners, html, lastOp>>
        ELSE IF call.op = "getLoadingWidget"
        THEN /\ calls' = [calls EXCEPT ![c] = [@ EXCEPT !.pc = "done", !.val = promise.val]]
             /\ UNCHANGED <<inflight, listeners, html, lastOp>>
        ELSE /\ GetWidgetLoop(c, [call EXCEPT !.val = promise.val])
             /\ html' = IF present[call.sel]
                        THEN [html EXCEPT ![call.sel] = promise.val]
                        ELSE html
             /\ lastOp' = [Op("placeholder", "") EXCEPT !.sel = call.sel]
     /\ UNCHANGED <<widgetVars, head, style, body, defined, present>>
     /\ UNCHANGED <<now, facade, loadingFetch, moduleTags, frames, readyAt, amd, restores>>

\* the page fetches with the locale it was configured with, null
PageNext ==
  \/ \E w \in Widgets : FetchCall(w, NoLocale)
  \/ \E req \in inflight : FetchNetworkError(req)
  \/ \E w \in Widgets, s \in Selectors : Mount(w, s)
  \/ \E w \in Widgets : UpdateAll(w)
  \/ \E w \in Widgets : RemoveAll(w)
  \/ \E w \in Widgets, d \in MessageData : EventHandler(w, d)
  \/ \E g \in Globals : LibraryLoaded(g)
  \/ \E s \in Selectors : Detach(s)
  \/ \E s \in Selectors : Attach(s)

\* the lifecycle of a widget whose markup carries no scripts
Next ==
  \/ PageNext
  \/ \E req \in inflight : \E resp \in BackendResponses(PlainMarkups(req.locale)) :
       FetchReturn(req, resp)

Spec == Init /\ [][Next]_vars

\* the lifecycle of a widget with head and body scripts, mounted at "#a"
NextAssets ==
  \/ \E w \in Widgets : FetchCall(w, NoLocale)
  \/ \E req \in inflight : \E resp \in BackendResponses(AssetMarkups(req.locale)) :
       FetchReturn(req, resp)
  \/ \E w \in Widgets : Mount(w, "#a")
  \/ \E w \in Widgets, d \in MessageData : EventHandler(w, d)
  \/ \E g \in Globals : LibraryLoaded(g)
  \/ ScriptTimer
  \/ Detach("#a")
  \/ Attach("#a")

SpecAssets == Init /\ [][NextAssets]_vars

\* the widget with scripts is fetched, mounted and re-mounted while the
\* timers of injectBodyScript run; a timer that is due fires
TimerResponses(locale) == [status : {200}, body : {HtmlText(m) : m \in AssetMarkups(locale)}]

NextTimers ==
  \/ \E w \in Widgets : FetchCall(w, NoLocale)
  \/ \E req \in inflight : \E resp \in TimerResponses(req.locale) : FetchReturn(req, resp)
  \/ \E w \in Widgets : Mount(w, "#a")
  \/ \E w \in Widgets : UpdateAll(w)
  \/ \E g \in {"Chart", "ChartDataLabels"} : LibraryLoaded(g)
  \/ ScriptTimer

SpecTimers == Init /\ [][NextTimers]_vars /\ WF_vars(ScriptTimer)

\* fetch alone, with every status and every body
NextHttp ==
  \/ \E w \in Widgets, l \in Locales : FetchCall(w, l)
  \/ \E req \in inflight : \E resp \in Responses(req.locale) : FetchReturn(req, resp)
  \/ \E req \in inflight : FetchNetworkError(req)

SpecHttp == Init /\ [][NextHttp]_vars

\* fetch after fetch, resolving with every markup of at most MaxElems
\* elements
ParseResponses == [status : {200}, body : {HtmlText(m) : m \in SeqsUpTo(ElemKinds, MaxElems)}]

NextParse ==
  \/ \E w \in Widgets : inflight = {} /\ FetchCall(w, NoLocale)
  \/ \E req \in inflight : \E resp \in ParseResponses : FetchReturn(req, resp)

SpecParse == Init /\ [][NextParse]_vars

\* the lifecycle of a widget with a style element
NextStyle ==
  \/ \E w \in Widgets : FetchCall(w, NoLocale)
  \/ \E req \in inflight : \E resp \in BackendResponses(StyleMarkups(req.locale)) :
       FetchReturn(req, resp)
  \/ \E w \in Widgets, s \in Selectors : Mount(w, s)
  \/ \E w \in Widgets : RemoveAll(w)
  \/ \E w \in Widgets, d \in MessageData : EventHandler(w, d)
  \/ \E g \in Globals : LibraryLoaded(g)

SpecStyle == Init /\ [][NextStyle]_vars

\* the placeholder of facade "f1" and its callers; no timer fires
NextLoading ==
  \/ GetLoadingWidgetCall("f1")
  \/ MountWidgetCall("f1", "#a")
  \/ \E resp \in LoadingResponses : LoadingResponse("f1", resp)
  \/ LoadingNetworkError("f1")
  \/ \E c \in DOMAIN calls : LoadingWidgetAwaited(c)
  \/ \E g \in {"Chart", "ChartDataLabels"} : LibraryLoaded(g)
  \/ \E req \in inflight : \E resp \in BackendResponses(PlainMarkups(req.locale)) :
       FetchReturn(req, resp)

SpecLoading == Init /\ [][NextLoading]_vars

\* the backend's responses, and a status 400 from a proxy whose body is an
\* HTML page
TimeoutResponses(locale) ==
  BackendResponses(PlainMarkups(locale))
    \cup [status : {400}, body : {HtmlText(<<PlainDiv>>)}]

\* getWidget of facade "f1" while the libraries load and time passes
NextTimeout ==
  \/ Tick
  \/ \E g \in {"Chart", "ChartDataLabels"} : LibraryLoaded(g)
  \/ GetWidgetCall("f1")
  \/ \E c \in DOMAIN calls : PollWake(c)
  \/ \E req \in inflight : \E resp \in TimeoutResponses(req.locale) :
       FetchReturn(req, resp)
  \/ \E req \in inflight : FetchNetworkError(req)

SpecTimeout == Init /\ [][NextTimeout]_vars

\* the library script tags: facades are constructed, their methods called
\* and animation frames run while the libraries load
NextModules ==
  \/ \E f \in Facades : NewFacade(f)
  \/ \E f \in Facades : AnimationFrame(f)
  \/ \E g \in Globals : LibraryLoaded(g)
  \/ \E f \in Facades : GetWidgetCall(f)
  \/ \E f \in Facades : MountWidgetCall(f, "#a")
  \/ Tick

SpecModules == Init /\ [][NextModules]_vars

\* the widget rendered for the locale, or a server error
BroadcastResponses(locale) ==
  [status : {200}, body : {HtmlText(<<RootDiv(locale)>>)}]
    \cup [status : {500}, body : {JsonText(JObj([detail |-> JStr("Widget not found")]))}]

\* the target element of each widget
MountPoint == [w \in AllWidgets |-> IF w = "w1" THEN "#a" ELSE "#b"]

\* two widgets on one page, each mounted at its own element, and the
\* facade's language broadcast
NextBroadcast ==
  \/ NewWidget("w2")
  \/ \E w \in listeners : FetchCall(w, NoLocale)
  \/ \E req \in inflight : \E resp \in BroadcastResponses(req.locale) :
       FetchReturn(req, resp)
  \/ \E w \in listeners : Mount(w, MountPoint[w])
  \/ \E l \in Locales \ {NoLocale} : ChangeLanguage("f1", l)
  \/ \E g \in {"Chart", "ChartDataLabels"} : LibraryLoaded(g)
  \/ Detach("#a")

SpecBroadcast == Init /\ [][NextBroadcast]_vars

\* a language re-fetch of widget w awaits its response
LanguagePending(w) == \E req \in inflight : req.w = w /\ req.cont = "updateAll"

\* a widget with scripts is mounted, then a language message arrives and,
\* while its re-fetch is pending, a clear message
NextClear ==
  \/ \E w \in Widgets : FetchCall(w, NoLocale)
  \/ \E req \in inflight : \E resp \in BackendResponses(AssetMarkups(req.locale)) :
       FetchReturn(req, resp)
  \/ \E w \in Widgets, s \in Selectors : Mount(w, s)
  \/ \E g \in {"Chart", "ChartDataLabels"} : LibraryLoaded(g)
  \/ \E w \in Widgets :
       EventHandler(w, Msg("object", TRUE, "intelli-widgets", "language", "fr"))
  \/ \E w \in Widgets :
       LanguagePending(w) /\ EventHandler(w, Msg("object", TRUE, "intelli-widgets", "clear", ""))
  \/ ScriptTimer

SpecClear == Init /\ [][NextClear]_vars

\* a page with an AMD loader constructs a facade with or without
\* preventAmdLoader, and the injected library scripts load
NextAmd ==
  \/ AmdLoaderDefined
  \/ \E prevent \in BOOLEAN : NewFacadeWith("f2", prevent)
  \/ \E f \in Facades : AnimationFrame(f)
  \/ \E g \in Globals : LibraryLoaded(g)
  \/ \E r \in restores : ScriptEvent(r)
  \/ \E r \in restores : RestoreFrame(r)

SpecAmd == Init /\ [][NextAmd]_vars

\* the two languages the page switches to, one after the other
FirstLocale == "fr"
SecondLocale == "nl"

\* the widget rendered for the locale; every fetch succeeds
LanguageResponses(locale) == [status : {200}, body : {HtmlText(<<RootDiv(locale)>>)}]

\* getWidget has returned the widget to the page, or the page constructed it
PageHolds(w) == w \in listeners /\ \A c \in DOMAIN calls : calls[c].w = w => calls[c].pc = "done"

\* the page changes the language twice while up to MaxOverlap fetch calls
\* of a widget await their response; w1 was constructed by the page, w2
\* comes from getWidget
NextLastWins ==
  \/ FetchCall("w1", NoLocale)
  \/ \E req \in inflight : \E resp \in LanguageResponses(req.locale) : FetchReturn(req, resp)
  \/ \E w \in AllWidgets : PageHolds(w) /\ Mount(w, MountPoint[w])
  \/ \E g \in {"Chart", "ChartDataLabels"} : LibraryLoaded(g)
  \/ GetWidgetCall("f1")
  \/ facade["f1"].locale = NoLocale /\ ChangeLanguageWithin("f1", FirstLocale, MaxOverlap)
  \/ facade["f1"].locale = FirstLocale /\ ChangeLanguageWithin("f1", SecondLocale, MaxOverlap)

SpecLastWins == Init /\ [][NextLastWins]_vars

(***************************************************************************)
(* Properties of fetch (SpecHttp).                                         *)
(***************************************************************************)
FetchReturned == lastOp.op = "fetch" /\ lastOp.resp # NoResp
RespStatus == lastOp.resp.status
RespBody == lastOp.resp.body

HasNonEmptyDetail(v) ==
  v.t = "obj" /\ "detail" \in DOMAIN v.f /\ Truthy(v.f["detail"])

IsValidationError(v) ==
  /\ v.t = "obj" /\ "detail" \in DOMAIN v.f
  /\ v.f["detail"].t = "arr" /\ Len(v.f["detail"].items) > 0
  /\ LET first == v.f["detail"].items[1]
     IN first.t = "obj" /\ {"loc", "msg"} \subseteq DOMAIN first.f

\* C1: on status 400 fetch rejects with IntelliWidgetNotFoundError(detail)
\* when the JSON body has a non-empty detail, with IntelliActionTokenError
\* when the body is JSON without one, and with IntelliSdkLoadingError only
\* when the body is not JSON.
C1_Status400ErrorKinds ==
  (FetchReturned /\ RespStatus = 400) =>
    IF RespBody.fmt = "json" /\ HasNonEmptyDetail(RespBody.val)
      THEN lastOp.err = "IntelliWidgetNotFoundError"
           /\ lastOp.arg = RespBody.val.f["detail"]
    ELSE IF RespBody.fmt = "json"
      THEN lastOp.err = "IntelliActionTokenError"
    ELSE lastOp.err = "IntelliSdkLoadingError"

\* C2: on status 422 with a body {detail: [{loc, msg}, ...]} fetch rejects
\* with IntelliInvalidParamaterError whose message is built from the first
\* validation error's loc and msg.
C2_Status422InvalidParameter ==
  (FetchReturned /\ RespStatus = 422 /\ RespBody.fmt = "json"
     /\ IsValidationError(RespBody.val)) =>
    LET first == RespBody.val.f["detail"].items[1]
    IN /\ lastOp.err = "IntelliInvalidParamaterError"
       /\ lastOp.arg = JArr(<<first.f["loc"], first.f["msg"]>>)

\* C3: fetch rejects with IntelliActionTokenError on 401, with
\* IntelliWidgetNotFoundError(body.detail) on 404 and with
\* IntelliUnexpectedError and its fixed message on 500; it never resolves
\* on these statuses.
C3_Status401_404_500 ==
  FetchReturned =>
    /\ RespStatus = 401 => lastOp.err = "IntelliActionTokenError"
    /\ RespStatus = 404 => lastOp.err = "IntelliWidgetNotFoundError"
    /\ (RespStatus = 404 /\ RespBody.fmt = "json" /\ RespBody.val.t = "obj"
          /\ "detail" \in DOMAIN RespBody.val.f)
         => lastOp.arg = RespBody.val.f["detail"]
    /\ RespStatus = 500 => lastOp.err = "IntelliUnexpectedError" /\ lastOp.arg = Msg500

(***************************************************************************)
(* Properties of the lifecycle.                                            *)
(***************************************************************************)
FetchCompletes == inflight' \subseteq inflight /\ inflight' # inflight

\* C4: a fetch that rejects leaves headElements, bodyScripts, innerContent,
\* instances and the content of the target elements as they were.
C4_RejectedFetchKeepsState ==
  [][(FetchCompletes /\ lastOp'.op = "fetch" /\ lastOp'.err # "")
       => UNCHANGED <<headElements, bodyScripts, innerContent, instances, html>>]_vars

\* a language re-fetch of a fetched and mounted widget has just rejected
C4_Witness ==
  /\ lastOp.op = "fetch" /\ lastOp.err # "" /\ lastOp.cont = "updateAll"
  /\ lastOp.resp.status \in ErrorStatuses
  /\ innerContent["w1"] # NoContent
  /\ headElements["w1"] # <<>> /\ bodyScripts["w1"] # <<>>
  /\ instances["w1"] = <<"#a">> /\ html["#a"] # Empty

HeadRank(n) == CASE n.tag = "script" -> 1 [] n.tag = "style" -> 2 [] n.tag = "link" -> 3

IsHeadAsset(e) == (e.tag = "script" /\ e.src # "") \/ e.tag \in {"style", "link"}
IsBodyScript(e) == e.tag = "script" /\ e.src = ""

\* seq holds exactly the elements of src at the positions P, each once
HoldsExactly(seq, src, P) ==
  /\ Len(seq) = Cardinality(P)
  /\ {seq[i].pos : i \in DOMAIN seq} = P
  /\ \A i \in DOMAIN seq : seq[i] = Node(seq[i].pos, src[seq[i].pos])

\* C5: after a fetch that resolved, headElements is the scripts with a src,
\* then the styles, then the links, each group in document order, and
\* bodyScripts is the scripts without a src in document order; no element
\* is in both and none is dropped.
C5_HeadAssetsGrouped ==
  (lastOp.op = "fetch" /\ lastOp.err = "") =>
    LET src == lastOp.resp.body.markup
        hes == headElements[lastOp.w]
        bs == bodyScripts[lastOp.w]
    IN /\ HoldsExactly(hes, src, {p \in DOMAIN src : IsHeadAsset(src[p])})
       /\ HoldsExactly(bs, src, {p \in DOMAIN src : IsBodyScript(src[p])})
       /\ \A i, j \in DOMAIN hes :
            i < j => \/ HeadRank(hes[i]) < HeadRank(hes[j])
                     \/ HeadRank(hes[i]) = HeadRank(hes[j]) /\ hes[i].pos < hes[j].pos
       /\ \A i, j \in DOMAIN bs : i < j => bs[i].pos < bs[j].pos
       /\ {hes[i].pos : i \in DOMAIN hes} \cap {bs[i].pos : i \in DOMAIN bs} = {}

\* the markup was link, style, script: the three come out reversed
C5_Witness ==
  /\ lastOp.op = "fetch" /\ lastOp.err = ""
  /\ Len(headElements["w1"]) = 3
  /\ headElements["w1"][1].tag = "script" /\ headElements["w1"][1].pos = 3
  /\ headElements["w1"][2].tag = "style" /\ headElements["w1"][2].pos = 2
  /\ headElements["w1"][3].tag = "link" /\ headElements["w1"][3].pos = 1

NoDuplicates(seq) == \A i, j \in DOMAIN seq : i # j => seq[i] # seq[j]

\* C6: instances never holds a selector twice; after a mount of a widget
\* that has content the selector is in the list exactly once and the target
\* element holds the content rendered for that call.
C6_NoDuplicateMountPoints ==
  /\ \A w \in Widgets : NoDuplicates(instances[w])
  /\ (lastOp.op = "mount" /\ lastOp.err = "" /\ innerContent[lastOp.w] # NoContent)
       => /\ Cardinality({i \in DOMAIN instances[lastOp.w] :
                            instances[lastOp.w][i] = lastOp.sel}) = 1
          /\ html[lastOp.sel] = ReplaceAll(innerContent[lastOp.w].text, lastOp.uid)

\* "#a" has been mounted a second time: the list had one entry before the
\* call and has one entry after it
C6_Witness ==
  /\ lastOp.op = "mount" /\ lastOp.err = "" /\ lastOp.sel = "#a"
  /\ lastOp.uid = "w1-1"
  /\ instances["w1"] = <<"#a">>
  /\ Includes(html["#a"], "w1-1")

IndexOf(seq, x) == CHOOSE i \in DOMAIN seq : seq[i] = x

\* C7: the uid of mount(selector) is widgetId-k, k being the 1-based
\* position of the selector in the mount-point list.
C7_UidIsOneBasedPosition ==
  (lastOp.op = "mount" /\ lastOp.err = "" /\ Includes(instances[lastOp.w], lastOp.sel))
    => lastOp.uid = lastOp.w \o "-" \o ToString(IndexOf(instances[lastOp.w], lastOp.sel))

\* C8: removeAll returns normally and leaves the list empty; every target
\* of the list that exists is cleared, whichever selectors had no element.
C8_RemoveAllEmptiesList ==
  (lastOp.op \in {"removeAll", "message-clear"}) =>
    /\ lastOp.err = ""
    /\ instances[lastOp.w] = <<>>
    /\ \A i \in DOMAIN lastOp.list : html[lastOp.list[i]] = Empty

\* removeAll ran on <<"#a", "#b">> with "#a" gone from the page
C8_Witness ==
  /\ lastOp.op = "removeAll"
  /\ lastOp.list = <<"#a", "#b">> /\ lastOp.warned = <<"#a">>
  /\ present["#b"] /\ html["#b"] = Empty
  /\ instances["w1"] = <<>>

\* C9: mount on an instance without content throws and changes neither the
\* mount-point list nor the document.
C9_MountWithoutContentFails ==
  [][\A w \in Widgets, sel \in Selectors :
       (Mount(w, sel) /\ innerContent[w] = NoContent)
         => (lastOp'.err # "" /\ UNCHANGED <<instances, html, head, style, body>>)]_vars

\* C10: loaded() is true exactly when Chart and ChartDataLabels are
\* defined, whether or not d3 is; so mount succeeds only then.
C10_LoadedIffChartAndPlugin ==
  /\ loaded(defined) <=> {"Chart", "ChartDataLabels"} \subseteq defined
  /\ loaded(defined \cup {"d3"}) = loaded(defined \ {"d3"})
  /\ (lastOp.op = "mount" /\ lastOp.err = "") => {"Chart", "ChartDataLabels"} \subseteq defined

\* a mount went through on a page without d3
C10_Witness ==
  /\ defined = {"Chart", "ChartDataLabels"}
  /\ lastOp.op = "mount" /\ lastOp.err = ""

(***************************************************************************)
(* Properties of the message handler and of updateAll (Spec).              *)
(***************************************************************************)
\* the message carries no {target: "intelli-widgets"} envelope
LacksEnvelope(data) ==
  data.type # "object" \/ ~data.hasTarget \/ data.target # "intelli-widgets"

\* C18: for every message without the envelope (a non-object, null, an
\* object without target, another target) eventHandler completes without
\* raising, issues no fetch and leaves content and mount points unchanged.
C18_MalformedMessageIgnored ==
  [][\A w \in Widgets, d \in MessageData :
       (EventHandler(w, d) /\ LacksEnvelope(d))
         => (lastOp'.err = "" /\ UNCHANGED <<inflight, innerContent, instances>>)]_vars

\* updateAll has just run: called by the page, or after the re-fetch of a
\* language message resolved
UpdateAllRan ==
  \/ lastOp'.op = "updateAll"
  \/ FetchCompletes /\ lastOp'.op = "fetch" /\ lastOp'.err = "" /\ lastOp'.cont = "updateAll"

\* C19: updateAll never removes a tracked selector, even when re-mounting
\* it fails because its element is gone or loaded() is false.
C19_UpdateAllKeepsSelectors ==
  [][UpdateAllRan =>
       \A w \in Widgets : \A i \in DOMAIN instances[w] :
         Includes(instances'[w], instances[w][i])]_vars

(***************************************************************************)
(* Properties of the injected style text (SpecStyle).                      *)
(***************************************************************************)
\* the text the last injectHeadStyle call appended to the style element
LastStyleText == style[Len(style)]

\* C20: the style text injected by a mount call has every placeholder
\* replaced by that call's own uid, and never carries the uid of an
\* earlier mount.
C20_StyleCarriesOwnUid ==
  (lastOp.op = "mount" /\ lastOp.err = "" /\ headElements[lastOp.w] # <<>>) =>
    /\ style # <<>>
    /\ LastStyleText = ReplaceAll(StyleElem.text, lastOp.uid)

(***************************************************************************)
(* Properties of the loading placeholder (SpecLoading).                    *)
(***************************************************************************)
\* C12: fetchLoadingWidget issues at most 5 GET requests; it resolves to
\* the text of the first response with status 200 and issues no request
\* after it resolved; after 5 responses with another status it resolves to
\* exactly "Loading...".
C12_LoadingWidgetRetries ==
  [][\A f \in Facades :
       LET lf == loadingFetch'[f]
           promise == facade'[f].promise
       IN /\ lf.gets <= 5
          /\ promise.st = "resolved" =>
               IF lf.last.status = 200
               THEN promise.val = lf.last.text /\ ~lf.awaiting
               ELSE promise.val = <<"Loading...">> /\ lf.gets = 5 /\ ~lf.awaiting
          /\ facade[f].promise.st = "resolved" => lf.gets = loadingFetch[f].gets]_vars

\* the fifth request was answered with a status other than 200
C12_Witness ==
  /\ facade["f1"].promise = Fulfilled(<<"Loading...">>)
  /\ loadingFetch["f1"].gets = 5
  /\ loadingFetch["f1"].last.status = 500

\* the call has awaited the placeholder promise
PastLoading(c) ==
  calls[c].op \in {"getLoadingWidget", "mountWidget"} /\ calls[c].pc # "loading"

\* C13: for one facade the fetchLoadingWidget chain is started at most
\* once, and every getLoadingWidget / mountWidget caller gets the outcome
\* of that one chain: the same placeholder value.
C13_LoadingWidgetShared ==
  \A f \in Facades :
    /\ loadingFetch[f].started <= 1
    /\ \A c \in DOMAIN calls :
         (calls[c].f = f /\ PastLoading(c)) =>
           /\ facade[f].promise.st \in {"resolved", "rejected"}
           /\ facade[f].promise.st = "resolved" => calls[c].val = facade[f].promise.val
           /\ facade[f].promise.st = "rejected" =>
                calls[c].pc = "failed" /\ calls[c].err = facade[f].promise.err

\* a getLoadingWidget call and a mountWidget call of one facade both got
\* the text of the second response of its one chain
C13_Witness ==
  /\ loadingFetch["f1"].started = 1 /\ loadingFetch["f1"].gets = 2
  /\ calls[1].op = "getLoadingWidget" /\ calls[1].pc = "done"
  /\ calls[2].op = "mountWidget" /\ calls[2].pc \in {"sleeping", "fetching"}
  /\ calls[1].val = <<"skeleton">> /\ calls[2].val = <<"skeleton">>
  /\ html["#a"] = <<"skeleton">>

\* C14: mountWidget starts getWidget without waiting for the placeholder
\* promise: a mountWidget call never sits at its await of the placeholder
\* with getWidget not started.
C14_GetWidgetStartsWithPlaceholder ==
  \A c \in DOMAIN calls :
    calls[c].op = "mountWidget" =>
      calls[c].pc \in {"sleeping", "fetching", "done", "failed"}

(***************************************************************************)
(* Properties of getWidget's wait for the libraries (SpecTimeout).         *)
(***************************************************************************)
\* loaded() became true less than 10 s after the facade was constructed
ReadyInTime(f) == readyAt # -1 /\ readyAt < facade[f].modulesLoadStart + 10000

\* C15: the wait of getWidget rejects with IntelliSdkLoadingError only
\* when loaded() did not become true within 10 s of the construction of
\* the facade; while loaded() stays false, the first poll after the deadline
\* rejects.
C15_TimeoutOnlyWhenNotReady ==
  [][\A c \in DOMAIN calls :
       /\ (PollWake(c) /\ calls'[c].err = "IntelliSdkLoadingError")
            => ~ReadyInTime(calls[c].f)
       /\ (PollWake(c) /\ ~loaded(defined)
             /\ facade[calls[c].f].modulesLoadStart + 10000 < now)
            => calls'[c].err = "IntelliSdkLoadingError"]_vars

\* getWidget has just constructed its widget
Constructs(c) == calls[c].w = "" /\ calls'[c].w # ""

\* getWidget has just given up waiting for the libraries
TimesOut(c) ==
  /\ calls[c].pc # "failed" /\ calls'[c].pc = "failed"
  /\ calls'[c].err = "IntelliSdkLoadingError" /\ calls'[c].arg = MsgModules

\* C16 as stated: whenever getWidget has rejected with
\* IntelliSdkLoadingError, no widget was created and no request sent.
C16_LoadingErrorMeansNoWidget ==
  \A c \in DOMAIN calls :
    (calls[c].op = "getWidget" /\ calls[c].pc = "failed"
       /\ calls[c].err = "IntelliSdkLoadingError") => calls[c].w = ""

\* C16, amended: getWidget constructs its widget, registers the listener
\* and issues the request only in a state where loaded() is true; when it
\* rejects with the IntelliSdkLoadingError of its wait for the libraries, it
\* has created no widget and sent no request.
C16_ConstructsOnlyWhenLoaded ==
  [][\A c \in DOMAIN calls :
       /\ Constructs(c) =>
            /\ loaded(defined)
            /\ listeners' = listeners \cup {calls'[c].w}
            /\ \E req \in inflight' \ inflight : req.w = calls'[c].w
       /\ TimesOut(c) =>
            calls'[c].w = "" /\ inflight' = inflight /\ listeners' = listeners]_vars

\* getWidget was called with only the chart library loaded and gave up
\* after the deadline
C16_Witness ==
  /\ calls[1].op = "getWidget" /\ calls[1].pc = "failed"
  /\ calls[1].err = "IntelliSdkLoadingError" /\ calls[1].arg = MsgModules
  /\ defined = {"Chart"}
  /\ calls[1].w = "" /\ listeners = {"w1"}

(***************************************************************************)
(* Properties of the library script tags (SpecModules).                    *)
(***************************************************************************)
\* C17: each of the three library script tags is in the head exactly once,
\* whatever facades were constructed, methods called and animation frames
\* run; the plugin's tag once no animation frame callback is pending.
C17_LibraryTagsOnce ==
  /\ moduleTags[ChartUri] = 1
  /\ moduleTags[D3Uri] = 1
  /\ moduleTags[PluginUri] <= 1
  /\ frames = {} => moduleTags[PluginUri] = 1

(***************************************************************************)
(* Properties of the language broadcast (SpecBroadcast).                   *)
(***************************************************************************)
\* the requests the step issued
Issued == inflight' \ inflight

\* the re-fetch of a language message of widget w has just completed
LanguageFetchCompletes(w) ==
  FetchCompletes /\ lastOp'.op = "fetch" /\ lastOp'.w = w /\ lastOp'.cont = "updateAll"

\* C11: on changeLanguage(L) each widget issues exactly one fetch with
\* language L; when the fetch of a widget succeeds it re-mounts the
\* selectors that widget tracked and no other, and the completion of its
\* fetch leaves the mount-point list of every other widget as it was.
C11_BroadcastKeepsWidgetsApart ==
  [][/\ \A l \in Locales :
          ChangeLanguage("f1", l) =>
            /\ \A w \in listeners : Cardinality({r \in Issued : r.w = w}) = 1
            /\ \A r \in Issued : r.w \in listeners /\ r.locale = l /\ r.cont = "updateAll"
            /\ UNCHANGED instances
     /\ \A w \in AllWidgets :
          LanguageFetchCompletes(w) =>
            /\ \A v \in AllWidgets \ {w} : instances'[v] = instances[v]
            /\ \A s \in Selectors :
                 /\ Includes(instances'[w], s) => Includes(instances[w], s)
                 /\ ~Includes(instances[w], s) => html'[s] = html[s]
                 /\ (lastOp'.err = "" /\ Includes(instances[w], s) /\ present[s]) =>
                      /\ Includes(instances'[w], s)
                      /\ innerContent'[w] # NoContent =>
                           \E i \in DOMAIN instances'[w] :
                             html'[s] = ReplaceAll(innerContent'[w].text,
                                                   MountUid(w, SubSeq(instances'[w], 1, i - 1)))]_vars

\* w1 at "#a" and w2 at "#b" were sent "fr"; the fetch of w2 completed
\* first, then that of w1: each target shows the French content of its widget
C11_Witness ==
  /\ instances["w1"] = <<"#a">> /\ instances["w2"] = <<"#b">>
  /\ inflight = {}
  /\ lastOp.op = "fetch" /\ lastOp.w = "w1" /\ lastOp.cont = "updateAll" /\ lastOp.err = ""
  /\ html["#a"] = <<"id=", "w1-0", "fr">>
  /\ html["#b"] = <<"id=", "w2-0", "fr">>

(***************************************************************************)
(* Properties of mount and updateAll (Spec).                               *)
(***************************************************************************)
\* the uid the content shown at a selector was rendered with: the token
\* that replaced the placeholder of the root element
ShownUid(selector) == html[selector][2]

\* C21: no two distinct selectors of one widget that show its content were
\* rendered with the same uid.
C21_DistinctUids ==
  \A w \in Widgets : \A i, j \in DOMAIN instances[w] :
    (i # j /\ html[instances[w][i]] # Empty /\ html[instances[w][j]] # Empty)
      => ShownUid(instances[w][i]) # ShownUid(instances[w][j])

\* the two conditions under which mount throws
MountMustFail(selector) == ~present[selector] \/ ~loaded(defined)

\* C22: a mount call fails exactly when no element matches the selector or
\* the libraries are not loaded, and a failed call leaves the mount-point
\* list, the head, the body and every target element as they were.
C22_FailedMountChangesNothing ==
  [][\A w \in Widgets, selector \in Selectors :
       Mount(w, selector) =>
         /\ MountMustFail(selector) <=> lastOp'.err # ""
         /\ lastOp'.err # "" => UNCHANGED <<instances, head, style, body, html>>]_vars

\* a mount has just failed for want of an element, on a loaded page, for a
\* widget that has head assets, body scripts and a mount point
C22_Witness ==
  /\ lastOp.op = "mount" /\ lastOp.err = "Error: No element found"
  /\ loaded(defined)
  /\ headElements[lastOp.w] # <<>> /\ bodyScripts[lastOp.w] # <<>>
  /\ instances[lastOp.w] # <<>>

\* updateAll of widget w has just run: called by the page, or after the
\* re-fetch of a language message resolved
UpdateAllRanFor(w) ==
  \/ UpdateAll(w)
  \/ /\ FetchCompletes /\ lastOp'.op = "fetch" /\ lastOp'.w = w
     /\ lastOp'.err = "" /\ lastOp'.cont = "updateAll"

\* the selectors of a list whose mount does not throw, in list order
Mountable(list) == SelectSeq(list, LAMBDA selector : ~MountMustFail(selector))

\* C23: updateAll does not throw and calls mount once for every selector of
\* the list it started with, in list order, whether or not an earlier mount
\* failed: the selectors whose mount succeeds are all tracked again, in
\* their order, and the k-th of them shows the content with the uid of the
\* k-th successful mount.
C23_UpdateAllAttemptsEverySelector ==
  [][\A w \in Widgets :
       UpdateAllRanFor(w) =>
         LET ok == Mountable(instances[w])
         IN /\ lastOp'.err = ""
            /\ instances'[w] = ok
            /\ \A k \in DOMAIN ok :
                 innerContent'[w] # NoContent =>
                   html'[ok[k]] =
                     ReplaceAll(innerContent'[w].text, MountUid(w, SubSeq(ok, 1, k - 1)))]_vars

\* updateAll has run over a list of two selectors of which the first has no
\* element, and re-mounted the second
C23_Witness ==
  /\ lastOp.op = "updateAll"
  /\ ~present["#a"] /\ present["#b"]
  /\ instances[lastOp.w] = <<"#b">>
  /\ html["#b"] # Empty
  /\ ShownUid("#b") = MountUid(lastOp.w, <<>>)

(***************************************************************************)
(* Properties of the handling of a language message (Spec).                *)
(***************************************************************************)
\* the fetch of a language message of widget w has just settled
LanguageFetchSettles(w) ==
  FetchCompletes /\ lastOp'.op = "fetch" /\ lastOp'.w = w /\ lastOp'.cont = "updateAll"

\* the handler of a language message has just started its fetch
LanguageFetchStarts(w) ==
  lastOp'.op = "message-language" /\ lastOp'.w = w /\ inflight' # inflight

\* C24: the handler of a language message does not touch the mount points
\* when it starts its fetch; when the fetch rejects it leaves the mount-point
\* list and every target element as they were; when the fetch resolves the
\* instance holds the content parsed from the response and every selector
\* that is tracked afterwards shows that content.
C24_UpdateAllAfterSuccessfulFetch ==
  [][\A w \in Widgets :
       /\ LanguageFetchStarts(w) => UNCHANGED <<widgetVars, domVars>>
       /\ (LanguageFetchSettles(w) /\ lastOp'.err # "")
            => UNCHANGED <<widgetVars, domVars>>
       /\ (LanguageFetchSettles(w) /\ lastOp'.err = "")
            => /\ innerContent'[w] = FetchInnerContent(ParseHtml(lastOp'.resp.body.markup))
               /\ instances'[w] = Mountable(instances[w])
               /\ \A i \in DOMAIN instances'[w] :
                    innerContent'[w] # NoContent =>
                      html'[instances'[w][i]] =
                        ReplaceAll(innerContent'[w].text, html'[instances'[w][i]][2])]_vars

\* the re-fetch of a language message has resolved and a mount point that
\* showed the content of the first fetch shows the content of the new locale
C24_Witness ==
  /\ lastOp.op = "fetch" /\ lastOp.cont = "updateAll" /\ lastOp.err = ""
  /\ lastOp.locale = "fr"
  /\ instances[lastOp.w] # <<>>
  /\ html[instances[lastOp.w][1]] = ReplaceAll(RootDiv("fr").text, MountUid(lastOp.w, <<>>))

(***************************************************************************)
(* Properties of the injection of the library modules (SpecModules).       *)
(***************************************************************************)
\* C25: the plugin's script tag is appended only in a state where the chart
\* library's global is defined; the construction of a facade appends the
\* tags of the chart library and of the visualization library whatever the
\* state; an animation frame that finds the chart library not ready appends
\* nothing and leaves the callback registered, at any time.
C25_PluginTagAfterChart ==
  [][/\ moduleTags'[PluginUri] > moduleTags[PluginUri] => chartJSLoaded(defined)
     /\ \A f \in Facades :
          NewFacade(f) => /\ moduleTags'[ChartUri] = moduleTags[ChartUri] + 1
                          /\ moduleTags'[D3Uri] = moduleTags[D3Uri] + 1
     /\ \A f \in Facades :
          (f \in frames /\ ~chartJSLoaded(defined) /\ ~chartJSLoaded(defined'))
            => (f \in frames' /\ moduleTags'[PluginUri] = moduleTags[PluginUri])]_vars

\* the load deadline of facade "f1" has passed, the chart library is not
\* ready, the plugin's tag is not in the document and the animation frame
\* callback is still registered
C25_Witness ==
  /\ loadTimeExceeded(facade["f1"].modulesLoadStart, now)
  /\ ~chartJSLoaded(defined)
  /\ "f1" \in frames
  /\ moduleTags[PluginUri] = 0

(***************************************************************************)
(* Properties of the injected assets (SpecAssets).                         *)
(***************************************************************************)
\* the script tags injectHeadScript appends for a list of head elements
HeadScriptsOf(hes) ==
  LET scripts == SelectSeq(hes, LAMBDA el : el.tag = "script")
  IN [i \in DOMAIN scripts |-> HeadScript(scripts[i].src)]

\* the texts injectBodyScript appends for a list of body scripts and a uid
BodyTextsOf(scripts, uid) ==
  [i \in DOMAIN scripts |-> ReplaceAll(scripts[i].text, uid)]

\* C26: every successful mount call appends one script tag to the head for
\* every head script of the widget, whatever was injected before, and one
\* inline script to the body for every body script, its placeholder replaced
\* by the uid of that call.
C26_EveryMountInjectsAssets ==
  [][\A w \in Widgets, selector \in Selectors :
       (Mount(w, selector) /\ lastOp'.err = "") =>
         /\ head' = head \o HeadScriptsOf(headElements[w])
         /\ body' = body \o BodyTextsOf(bodyScripts[w], lastOp'.uid)]_vars

\* the second successful mount of a widget with one head script and one
\* body script: two script tags in the head, and the body holds the inline
\* scripts of both mounts, each with the uid of its mount
C26_Witness ==
  /\ lastOp.op = "mount" /\ lastOp.err = "" /\ lastOp.uid = MountUid(lastOp.w, <<"#a">>)
  /\ Len(headElements[lastOp.w]) = 1
  /\ head = <<HeadScript(ExtScript.src), HeadScript(ExtScript.src)>>
  /\ body = BodyTextsOf(bodyScripts[lastOp.w], MountUid(lastOp.w, <<>>))
              \o BodyTextsOf(bodyScripts[lastOp.w], lastOp.uid)
  /\ Len(body) = 2

(***************************************************************************)
(* Properties of the timers of injectBodyScript (SpecTimers).              *)
(***************************************************************************)
IsPrefix(s, t) == Len(s) <= Len(t) /\ SubSeq(t, 1, Len(s)) = s

\* C27: the body loses an injected script only one at a time, the oldest
\* one, whose timer is the first to be due, and every other step only
\* appends to it; timers keep firing unless the body stays free of injected
\* scripts from some point on, so that every injected script is eventually
\* removed.
C27_BodyScriptsRemoved ==
  /\ [][body' # body =>
          (IsPrefix(body, body') \/ (body # <<>> /\ body' = Tail(body)))]_vars
  /\ ([]<><<ScriptTimer>>_vars \/ <>[](body = <<>>))

\* two mounts have injected their body scripts and all timers have fired:
\* no injected script is left in the body
C27_Witness ==
  /\ lastOp.op = "mount" /\ lastOp.err = "" /\ lastOp.uid = MountUid(lastOp.w, <<"#a">>)
  /\ bodyScripts[lastOp.w] # <<>>
  /\ body = <<>>

(***************************************************************************)
(* Properties of a fetch that resolves (SpecHttp).                         *)
(***************************************************************************)
\* C28: on every status the switch has no case for, fetch resolves, and the
\* head assets, the body scripts and the content of the instance are what
\* the parse of the response text yields, with nothing of an earlier fetch.
C28_OtherStatusesResolve ==
  (FetchReturned /\ RespStatus \notin ErrorStatuses) =>
    LET nodes == ParseHtml(RespBody.markup)
    IN /\ lastOp.err = ""
       /\ headElements[lastOp.w] = FetchHeadElements(nodes)
       /\ bodyScripts[lastOp.w] = FetchBodyScripts(nodes)
       /\ innerContent[lastOp.w] = FetchInnerContent(nodes)

\* a response with status 403 and the markup of a widget has resolved the
\* fetch and its head script, body script and root element are stored
C28_Witness ==
  /\ FetchReturned /\ RespStatus = 403 /\ lastOp.err = ""
  /\ Len(headElements[lastOp.w]) = 1
  /\ Len(bodyScripts[lastOp.w]) = 1
  /\ innerContent[lastOp.w] # NoContent

(***************************************************************************)
(* Properties of fetched() (Spec).                                         *)
(***************************************************************************)
\* IntelliWidget.fetched()
fetched(w) == innerContent[w] # NoContent

\* C29: once fetched() is true it is true after every later step.
C29_FetchedStaysTrue ==
  [][\A w \in Widgets : fetched(w) => innerContent'[w] # NoContent]_vars

(***************************************************************************)
(* Properties of two language changes in a row (SpecLastWins).             *)
(***************************************************************************)
\* widget w holds the content rendered for the locale and each of its mount
\* points shows it
ShowsLocale(w, locale) ==
  /\ innerContent[w] = FetchInnerContent(ParseHtml(<<RootDiv(locale)>>))
  /\ \A i \in DOMAIN instances[w] :
       html[instances[w][i]] = ReplaceAll(RootDiv(locale).text, ShownUid(instances[w][i]))

\* C30: after changeLanguage(FirstLocale) and then changeLanguage(SecondLocale),
\* once no fetch is in flight, every widget holds and shows the content of
\* SecondLocale.
C30_LastLanguageWins ==
  (facade["f1"].locale = SecondLocale /\ inflight = {})
    => \A w \in listeners : ShowsLocale(w, SecondLocale)

(***************************************************************************)
(* Properties of a clear during a language change (SpecClear).             *)
(***************************************************************************)
\* C31: when the re-fetch of a language message settles and the last thing
\* that happened to the widget was a clear message, handled while that
\* re-fetch was pending, the mount-point list is empty afterwards and every
\* target element the clear emptied is still empty.
C31_ClearSurvivesLanguageChange ==
  [][\A w \in Widgets :
       (LanguageFetchSettles(w) /\ lastOp.op = "message-clear" /\ lastOp.w = w)
         => /\ instances'[w] = <<>>
            /\ \A i \in DOMAIN lastOp.list : html'[lastOp.list[i]] = Empty
            /\ head' = head /\ body' = body]_vars

\* a widget that was mounted (its head script is in the head) and cleared
\* during a language change: the re-fetch has resolved with content, the list
\* is empty and so are the target elements
C31_Witness ==
  /\ lastOp.op = "fetch" /\ lastOp.cont = "updateAll" /\ lastOp.err = ""
  /\ innerContent[lastOp.w] # NoContent
  /\ head # <<>>
  /\ instances[lastOp.w] = <<>>
  /\ \A s \in Selectors : html[s] = Empty

(***************************************************************************)
(* Properties of the injection with the AMD loader disabled (SpecAmd).     *)
(***************************************************************************)
\* C32: once the load or error event and the following animation frame of
\* every script injected with the AMD loader disabled have happened,
\* window.define.amd is not the undefined the injection set: it holds the
\* page's value again.
C32_AmdRestored == restores = {} => amd # AmdUndefined

====
